---- MODULE Spec2Model ----
(***************************************************************************)
(* Model of the enriched invoice master actor (src/.actor/src/main.py):    *)
(* key extraction over header aliases, the one-to-many index, the          *)
(* attachment / issue aggregation, the primary-driven join, the fallback   *)
(* CSV parser and the run of main.                                         *)
(*                                                                         *)
(* Python values are tagged: None, Str(s), PyInt(n).  A str is the         *)
(* sequence of its code points, so that strip(), upper(), sorted() and     *)
(* "; ".join() are computed, not assumed.  A dict is a function from its   *)
(* keys (column names) to values; row.get(c) of an absent column is None.  *)
(***************************************************************************)
EXTENDS Integers, Sequences, FiniteSets, TLC

VARIABLES
    pc,              \* position of the run (main), or phase of a function call
    actor_input,     \* Actor.get_input(): Year, InvoicesUrl, AttachUrl, IssuesUrl
    invoice_rows,    \* main / build_enriched_rows: the primary records
    invoice_header,  \* main: header of the invoice CSV
    attach_rows,     \* attachment records
    issues_rows,     \* issue records
    attach_index,    \* build_enriched_rows: build_index(attach_rows, ...)
    issue_index,     \* build_enriched_rows: build_index(issue_rows, ...)
    enriched_rows,   \* result of build_enriched_rows
    kv_store,        \* the Actor.set_value calls made, in order
    dataset,         \* the Actor.push_data calls made, in order
    log,             \* the Actor.log events, in order
    calls,           \* main: the calls made so far that fetch, join, write or push
    arg,             \* argument of the function under call (function specs)
    res              \* its result

vars == <<pc, actor_input, invoice_rows, invoice_header, attach_rows, issues_rows,
          attach_index, issue_index, enriched_rows, kv_store, dataset, log,
          calls, arg, res>>

(***************************************************************************)
(* Python values and str methods                                           *)
(***************************************************************************)
None == [t |-> "none"]
Str(s) == [t |-> "str", v |-> s]
PyInt(n) == [t |-> "int", v |-> n]

\* bool(v): None, "" and 0 are falsy
Truthy(v) ==
    CASE v.t = "none" -> FALSE
      [] v.t = "str" -> v.v # <<>>
      [] v.t = "int" -> v.v # 0

\* row.get(col)
Get(row, col) == IF col \in DOMAIN row THEN row[col] ELSE None

\* a or b or c ...: the first truthy operand, else the last operand
RECURSIVE OrChain(_)
OrChain(vals) ==
    IF Len(vals) = 1 THEN vals[1]
    ELSE IF Truthy(vals[1]) THEN vals[1]
    ELSE OrChain(Tail(vals))

\* row.get(a1) or row.get(a2) or ...
GetFirst(row, aliases) == OrChain([i \in 1..Len(aliases) |-> Get(row, aliases[i])])

\* str.isspace for the ASCII range: \t \n \v \f \r FS GS RS US and space
IsSpace(c) == c \in {9, 10, 11, 12, 13, 28, 29, 30, 31, 32}

RECURSIVE LStrip(_)
LStrip(s) == IF s # <<>> /\ IsSpace(Head(s)) THEN LStrip(Tail(s)) ELSE s

RECURSIVE RStrip(_)
RStrip(s) ==
    IF s # <<>> /\ IsSpace(s[Len(s)]) THEN RStrip(SubSeq(s, 1, Len(s) - 1)) ELSE s

\* str.strip()
strip(s) == RStrip(LStrip(s))

\* str.upper() for the ASCII range
upper(s) == [i \in 1..Len(s) |-> IF s[i] \in 97..122 THEN s[i] - 32 ELSE s[i]]

\* str(n) for n >= 0
RECURSIVE IntToStr(_)
IntToStr(n) ==
    IF n < 10 THEN <<48 + n>> ELSE IntToStr(n \div 10) \o <<48 + (n % 10)>>

\* str(v) of a value that is not None
str(v) == IF v.t = "int" THEN IntToStr(v.v) ELSE v.v

\* a < b on str: code point order, a proper prefix first
RECURSIVE StrLess(_, _)
StrLess(a, b) ==
    IF b = <<>> THEN FALSE
    ELSE IF a = <<>> THEN TRUE
    ELSE IF Head(a) # Head(b) THEN Head(a) < Head(b)
    ELSE StrLess(Tail(a), Tail(b))

\* sorted(S) of a set of str
RECURSIVE sorted(_)
sorted(S) ==
    IF S = {} THEN <<>>
    ELSE LET m == CHOOSE x \in S : \A y \in S : x = y \/ StrLess(x, y)
         IN <<m>> \o sorted(S \ {m})

\* sep.join(seq)
RECURSIVE join(_, _)
join(sep, seq) ==
    IF seq = <<>> THEN <<>>
    ELSE IF Len(seq) = 1 THEN seq[1]
    ELSE seq[1] \o sep \o join(sep, Tail(seq))

\* "; "
SEP == <<59, 32>>

(***************************************************************************)
(* small helpers                                                           *)
(***************************************************************************)
\* norm: a value to a trimmed str, None to ""
norm(s) == IF s = None THEN <<>> ELSE strip(str(s))

(***************************************************************************)
(* key functions                                                           *)
(***************************************************************************)
InvoiceAliases ==
    <<"Invoice ID", "InvoiceID", "Invoice Id", "Xero number", "Invoice Number", "Invoice">>

AttachmentAliases ==
    <<"Invoice ID", "InvoiceID", "Invoice Id", "Xero number", "Invoice Number", "Invoice">>

IssueAliases == <<"Invoice ID", "InvoiceID", "Invoice Id", "Key">>

invoice_key_from_invoices(row) == upper(norm(GetFirst(row, InvoiceAliases)))

invoice_key_from_attachments(row) == upper(norm(GetFirst(row, AttachmentAliases)))

invoice_key_from_issues(row) == upper(norm(GetFirst(row, IssueAliases)))

\* key_fn(r) for the key function named by kind
key_fn(kind, row) ==
    CASE kind = "invoices" -> invoice_key_from_invoices(row)
      [] kind = "attachments" -> invoice_key_from_attachments(row)
      [] kind = "issues" -> invoice_key_from_issues(row)

(***************************************************************************)
(* enrichment logic                                                        *)
(***************************************************************************)
\* the dict {}
EmptyDict == [k \in {} |-> None]

\* a loop turn that indexes every record, the unkeyable ones under ""
index_add_noSkip(index, k, r) ==
    IF k \in DOMAIN index THEN [index EXCEPT ![k] = Append(@, r)]
    ELSE index @@ (k :> <<r>>)

\* a loop turn that keeps only the last record of a key
index_add_overwrite(index, k, r) ==
    IF k = <<>> THEN index
    ELSE IF k \in DOMAIN index THEN [index EXCEPT ![k] = <<r>>]
    ELSE index @@ (k :> <<r>>)

\* one turn of build_index's loop: skip an empty key, else
\* index.setdefault(k, []).append(r)
index_add(index, k, r) ==
    IF k = <<>> THEN index
    ELSE IF k \in DOMAIN index THEN [index EXCEPT ![k] = Append(@, r)]
    ELSE index @@ (k :> <<r>>)

\* build_index(rows, key_fn): rows taken in input order
build_index(rows, kind) ==
    LET loop[i \in 0..Len(rows)] ==
            IF i = 0 THEN EmptyDict
            ELSE index_add(loop[i - 1], key_fn(kind, rows[i]), rows[i])
    IN loop[Len(rows)]

\* index.get(key, [])
index_get(index, key) == IF key \in DOMAIN index THEN index[key] ELSE <<>>

DocIdAliases == <<"Doc ID", "DocID", "Attachment ID", "AttachmentId", "Id">>
NameAliases == <<"name", "Name", "file_name", "File Name", "FileName">>
PathAliases ==
    <<"path_lower", "Path_Lower", "dbx_path_lower", "Dropbox path lower", "path_display">>
FlagAliases == <<"Issue_Flag", "Issue flag", "Issue Flag", "Issue", "Status">>

\* the set a loop of extract_*_fields collects: norm(first truthy alias) of
\* every record, added when non-empty
collect(rows, aliases) ==
    {norm(GetFirst(rows[i], aliases)) : i \in 1..Len(rows)} \ {<<>>}

\* a join of the values in matched-list order, neither deduplicated nor sorted
joined_inListOrder(rows, aliases) ==
    join(SEP, SelectSeq([i \in 1..Len(rows) |-> norm(GetFirst(rows[i], aliases))],
                        LAMBDA s : s # <<>>))

\* "; ".join(sorted(values)) if values else ""
joined(rows, aliases) ==
    LET values == collect(rows, aliases)
    IN IF values # {} THEN join(SEP, sorted(values)) ELSE <<>>

\* the characters json.dumps writes for one printable ASCII character
JsonChar(c) == IF c = 34 THEN <<92, 34>> ELSE IF c = 92 THEN <<92, 92>> ELSE <<c>>

RECURSIVE JsonEscape(_)
JsonEscape(s) == IF s = <<>> THEN <<>> ELSE JsonChar(Head(s)) \o JsonEscape(Tail(s))

\* json.dumps({"path": p}, separators=(",", ":")), p printable ASCII
json_dumps_path(p) ==
    <<123, 34, 112, 97, 116, 104, 34, 58, 34>> \o JsonEscape(p) \o <<34, 125>>

\* download_args: one entry per non-empty path, in sorted order
download_args(paths) ==
    LET ps == sorted(paths)
    IN [i \in 1..Len(SelectSeq(ps, LAMBDA p : p # <<>>)) |->
            json_dumps_path(SelectSeq(ps, LAMBDA p : p # <<>>)[i])]

extract_attachment_fields(rows) ==
    LET paths == collect(rows, PathAliases)
        args == download_args(paths)
    IN    "Enriched_Attachment_Count" :> PyInt(Len(rows))
       @@ "Enriched_Attachment_Doc_IDs" :> Str(joined(rows, DocIdAliases))
       @@ "Enriched_Attachment_File_Names" :> Str(joined(rows, NameAliases))
       @@ "Enriched_Attachment_Paths" :> Str(joined(rows, PathAliases))
       @@ "Enriched_Attachment_Download_Args" :>
              Str(IF args # <<>> THEN join(SEP, args) ELSE <<>>)

extract_issue_fields(rows) ==
       "Enriched_Issue_Count" :> PyInt(Len(rows))
    @@ "Enriched_Issue_Flags" :> Str(joined(rows, FlagAliases))

EmptyAttachFields ==
       "Enriched_Attachment_Count" :> PyInt(0)
    @@ "Enriched_Attachment_Doc_IDs" :> Str(<<>>)
    @@ "Enriched_Attachment_File_Names" :> Str(<<>>)
    @@ "Enriched_Attachment_Paths" :> Str(<<>>)
    @@ "Enriched_Attachment_Download_Args" :> Str(<<>>)

EmptyIssueFields ==
       "Enriched_Issue_Count" :> PyInt(0)
    @@ "Enriched_Issue_Flags" :> Str(<<>>)

\* d.update(e): e's values win
update(d, e) == e @@ d

\* a loop turn that adds the fields of a source only when it has matches
enrich_row_partial(inv, a_index, i_index) ==
    LET key == invoice_key_from_invoices(inv)
        a_rows == index_get(a_index, key)
        i_rows == index_get(i_index, key)
        attach_fields ==
            IF a_rows # <<>> THEN extract_attachment_fields(a_rows) ELSE EmptyDict
        issue_fields ==
            IF i_rows # <<>> THEN extract_issue_fields(i_rows) ELSE EmptyDict
    IN update(update(inv, attach_fields), issue_fields)

\* one turn of build_enriched_rows' loop: the output row of primary record inv
enrich_row(inv, a_index, i_index) ==
    LET key == invoice_key_from_invoices(inv)
        a_rows == index_get(a_index, key)
        i_rows == index_get(i_index, key)
        attach_fields ==
            IF a_rows # <<>> THEN extract_attachment_fields(a_rows) ELSE EmptyAttachFields
        issue_fields ==
            IF i_rows # <<>> THEN extract_issue_fields(i_rows) ELSE EmptyIssueFields
    IN update(update(inv, attach_fields), issue_fields)

\* a loop that leaves out the primary records without a key
enriched_loop_skipUnkeyed(inv_rows, a_index, i_index) ==
    LET keyed == SelectSeq(inv_rows, LAMBDA r : invoice_key_from_invoices(r) # <<>>)
    IN [i \in 1..Len(keyed) |-> enrich_row(keyed[i], a_index, i_index)]

\* build_enriched_rows' loop: one row appended per primary record, in order
enriched_loop(inv_rows, a_index, i_index) ==
    [i \in 1..Len(inv_rows) |-> enrich_row(inv_rows[i], a_index, i_index)]

build_enriched_rows(inv_rows, a_rows, i_rows) ==
    enriched_loop(inv_rows,
                  build_index(a_rows, "attachments"),
                  build_index(i_rows, "issues"))

(***************************************************************************)
(* Bounded inputs                                                          *)
(***************************************************************************)
MaxInvoiceRows == 2
MaxAttachRows == 2
MaxIssueRows == 1
MaxIndexRows == 3

\* the sequences over S of length at most n
SeqsUpTo(S, n) == UNION {[1..k -> S] : k \in 0..n}

S_A1 == <<65, 49>>            \* "A1"
S_a1 == <<97, 49>>            \* "a1"
S_a1_padded == <<32, 97, 49, 32>>  \* " a1 "
S_B2 == <<66, 50>>            \* "B2"
S_b2 == <<98, 50>>            \* "b2"
S_blank == <<32>>             \* " "
S_10 == <<49, 48>>            \* "10"
S_7 == <<55>>                 \* "7"
S_D1 == <<68, 49>>            \* "D1"
S_D2 == <<68, 50>>            \* "D2"
S_D3 == <<68, 51>>            \* "D3"
S_f == <<102>>                \* "f"
S_g == <<103>>                \* "g"
S_path_p == <<47, 112>>       \* "/p"
S_path_q == <<47, 34, 113>>   \* '/"q'
S_late == <<108, 97, 116, 101>>  \* "late"
S_dup == <<100, 117, 112>>    \* "dup"

\* invoice records under the header Invoice ID, Invoice Number, Amount
I_A1 == "Invoice ID" :> Str(S_A1) @@ "Invoice Number" :> Str(<<>>) @@ "Amount" :> Str(S_10)
I_blank_B2 ==
    "Invoice ID" :> Str(S_blank) @@ "Invoice Number" :> Str(S_B2) @@ "Amount" :> Str(S_10)
I_B2 == "Invoice ID" :> Str(<<>>) @@ "Invoice Number" :> Str(S_B2) @@ "Amount" :> Str(S_10)
I_unkeyed ==
    "Invoice ID" :> Str(<<>>) @@ "Invoice Number" :> Str(<<>>) @@ "Amount" :> Str(S_10)

InvoiceRecords == {I_A1, I_blank_B2, I_B2, I_unkeyed}

\* an invoice record that already has an enrichment column
EnrichedInvoiceRecords ==
    { "Invoice ID" :> Str(S_A1) @@ "Enriched_Issue_Count" :> Str(S_7) }

\* attachment records under the header Invoice ID, Doc ID, DocID, name, path_lower;
\* a None cell is a short line read by csv.DictReader
AttachRecords ==
    {    "Invoice ID" :> Str(S_a1) @@ "Doc ID" :> Str(S_D1) @@ "DocID" :> Str(<<>>)
      @@ "name" :> Str(S_f) @@ "path_lower" :> Str(S_path_p),
         "Invoice ID" :> Str(S_a1_padded) @@ "Doc ID" :> Str(S_D2) @@ "DocID" :> Str(S_D3)
      @@ "name" :> Str(S_g) @@ "path_lower" :> Str(S_path_q),
         "Invoice ID" :> Str(S_A1) @@ "Doc ID" :> Str(S_blank) @@ "DocID" :> Str(S_D1)
      @@ "name" :> Str(S_f) @@ "path_lower" :> None,
         "Invoice ID" :> Str(<<>>) @@ "Doc ID" :> Str(S_D3) @@ "DocID" :> None
      @@ "name" :> Str(S_g) @@ "path_lower" :> Str(S_path_p),
         "Invoice ID" :> Str(S_b2) @@ "Doc ID" :> Str(S_D1) @@ "DocID" :> Str(<<>>)
      @@ "name" :> Str(<<>>) @@ "path_lower" :> Str(<<>>) }

\* issue records under the header Invoice ID, Key, Issue_Flag, Status
IssueRecords ==
    {    "Invoice ID" :> Str(S_A1) @@ "Key" :> Str(<<>>)
      @@ "Issue_Flag" :> Str(S_late) @@ "Status" :> Str(<<>>),
         "Invoice ID" :> Str(<<>>) @@ "Key" :> Str(S_a1)
      @@ "Issue_Flag" :> Str(<<>>) @@ "Status" :> Str(S_dup),
         "Invoice ID" :> Str(<<>>) @@ "Key" :> Str(<<>>)
      @@ "Issue_Flag" :> Str(S_late) @@ "Status" :> Str(<<>>) }

\* values of the variables a specification does not use
Idle == <<>>

(***************************************************************************)
(* SpecJoin: one call of build_enriched_rows                               *)
(***************************************************************************)
mainOnly == <<actor_input, invoice_header, kv_store, dataset, calls>>

InitJoin ==
    /\ pc = "call"
    /\ invoice_rows \in SeqsUpTo(InvoiceRecords \cup EnrichedInvoiceRecords, MaxInvoiceRows)
    /\ attach_rows \in SeqsUpTo(AttachRecords, MaxAttachRows)
    /\ issues_rows \in SeqsUpTo(IssueRecords, MaxIssueRows)
    /\ attach_index = Idle /\ issue_index = Idle /\ enriched_rows = Idle
    /\ actor_input = Idle /\ invoice_header = Idle /\ kv_store = Idle
    /\ dataset = Idle /\ calls = Idle /\ arg = Idle /\ res = Idle
    /\ log = <<>>

\* the call build_enriched_rows(invoice_rows, attach_rows, issues_rows)
BuildEnrichedRows ==
    /\ pc = "call"
    /\ attach_index' = build_index(attach_rows, "attachments")
    /\ issue_index' = build_index(issues_rows, "issues")
    /\ enriched_rows' = build_enriched_rows(invoice_rows, attach_rows, issues_rows)
    /\ log' = log \o <<"info", "info">>
    /\ pc' = "return"
    /\ UNCHANGED <<invoice_rows, attach_rows, issues_rows, mainOnly, arg, res>>

NextJoin == BuildEnrichedRows

SpecJoin == InitJoin /\ [][NextJoin]_vars

(***************************************************************************)
(* SpecIndex: one call of build_index                                      *)
(***************************************************************************)
RecordsOf(kind) ==
    CASE kind = "invoices" -> InvoiceRecords
      [] kind = "attachments" -> AttachRecords
      [] kind = "issues" -> IssueRecords

joinVars == <<invoice_rows, attach_rows, issues_rows, attach_index, issue_index,
              enriched_rows>>

InitIndex ==
    /\ pc = "call"
    /\ \E kind \in {"invoices", "attachments", "issues"} :
         \E rows \in SeqsUpTo(RecordsOf(kind), MaxIndexRows) :
            arg = [rows |-> rows, kind |-> kind]
    /\ res = Idle
    /\ invoice_rows = Idle /\ attach_rows = Idle /\ issues_rows = Idle
    /\ attach_index = Idle /\ issue_index = Idle /\ enriched_rows = Idle
    /\ actor_input = Idle /\ invoice_header = Idle /\ kv_store = Idle
    /\ dataset = Idle /\ calls = Idle
    /\ log = <<>>

\* the call build_index(rows, key_fn)
BuildIndex ==
    /\ pc = "call"
    /\ res' = build_index(arg.rows, arg.kind)
    /\ pc' = "return"
    /\ UNCHANGED <<arg, joinVars, mainOnly, log>>

NextIndex == BuildIndex

SpecIndex == InitIndex /\ [][NextIndex]_vars

(***************************************************************************)
(* Properties of the join                                                  *)
(***************************************************************************)
AttachFieldNames ==
    {"Enriched_Attachment_Count", "Enriched_Attachment_Doc_IDs",
     "Enriched_Attachment_File_Names", "Enriched_Attachment_Paths",
     "Enriched_Attachment_Download_Args"}

IssueFieldNames == {"Enriched_Issue_Count", "Enriched_Issue_Flags"}

EnrichmentFieldNames == AttachFieldNames \cup IssueFieldNames

\* the number of records of rows whose key under kind is k
CountKeyed(rows, kind, k) == Cardinality({j \in 1..Len(rows) : key_fn(kind, rows[j]) = k})

\* C1: build_enriched_rows returns one row per primary record, in primary
\* order: the output is as long as the primary input and the i-th output row
\* has every column of the i-th primary record, with the record's value in
\* every column that is not an enrichment field.
C1_OneRowPerPrimary ==
    pc = "return" =>
        /\ Len(enriched_rows) = Len(invoice_rows)
        /\ \A i \in 1..Len(invoice_rows) :
              /\ DOMAIN invoice_rows[i] \subseteq DOMAIN enriched_rows[i]
              /\ \A c \in DOMAIN invoice_rows[i] \ EnrichmentFieldNames :
                    enriched_rows[i][c] = invoice_rows[i][c]

\* two different primary records, both unkeyable (an empty, duplicated key),
\* have been enriched
C1_Witness ==
    /\ pc = "return"
    /\ Len(invoice_rows) = 2
    /\ invoice_rows[1] # invoice_rows[2]
    /\ invoice_key_from_invoices(invoice_rows[1]) = <<>>
    /\ invoice_key_from_invoices(invoice_rows[2]) = <<>>
    /\ Len(enriched_rows) = 2

\* C2: for a primary record with a non-empty key K, Enriched_Attachment_Count
\* is the number of attachment records whose key is K and Enriched_Issue_Count
\* the number of issue records whose key is K, keys being trimmed and
\* upper-cased.
C2_CountsMatchKey ==
    pc = "return" =>
        \A i \in 1..Len(invoice_rows) :
            LET K == invoice_key_from_invoices(invoice_rows[i])
            IN K # <<>> =>
                 /\ enriched_rows[i]["Enriched_Attachment_Count"]
                        = PyInt(CountKeyed(attach_rows, "attachments", K))
                 /\ enriched_rows[i]["Enriched_Issue_Count"]
                        = PyInt(CountKeyed(issues_rows, "issues", K))

\* primary "A1" against the single attachment record keyed "a1" with Doc ID
\* "D1": count 1 and Doc IDs "D1"
C2_Witness ==
    /\ pc = "return"
    /\ Len(invoice_rows) = 1 /\ Len(attach_rows) = 1
    /\ invoice_rows[1]["Invoice ID"] = Str(S_A1)
    /\ attach_rows[1]["Invoice ID"] = Str(S_a1)
    /\ attach_rows[1]["Doc ID"] = Str(S_D1)
    /\ enriched_rows[1]["Enriched_Attachment_Count"] = PyInt(1)
    /\ enriched_rows[1]["Enriched_Attachment_Doc_IDs"] = Str(S_D1)

\* C5: every output row has the seven enrichment fields, and a primary record
\* whose key is empty or absent from a source's index gets that source's
\* defaults: count 0 and every string field "".
C5_DefaultsWhenUnmatched ==
    pc = "return" =>
        \A i \in 1..Len(enriched_rows) :
            LET key == invoice_key_from_invoices(invoice_rows[i])
                out == enriched_rows[i]
            IN /\ EnrichmentFieldNames \subseteq DOMAIN out
               /\ (key = <<>> \/ key \notin DOMAIN attach_index) =>
                     /\ out["Enriched_Attachment_Count"] = PyInt(0)
                     /\ \A f \in AttachFieldNames \ {"Enriched_Attachment_Count"} :
                           out[f] = Str(<<>>)
               /\ (key = <<>> \/ key \notin DOMAIN issue_index) =>
                     /\ out["Enriched_Issue_Count"] = PyInt(0)
                     /\ out["Enriched_Issue_Flags"] = Str(<<>>)

\* an unkeyable primary record enriched while an attachment record and an
\* issue record are unkeyable too
C5_Witness ==
    /\ pc = "return"
    /\ \E i \in 1..Len(invoice_rows) :
          /\ invoice_key_from_invoices(invoice_rows[i]) = <<>>
          /\ enriched_rows[i]["Enriched_Attachment_Count"] = PyInt(0)
    /\ \E j \in 1..Len(attach_rows) : invoice_key_from_attachments(attach_rows[j]) = <<>>
    /\ \E j \in 1..Len(issues_rows) : invoice_key_from_issues(issues_rows[j]) = <<>>

\* the trimmed value of the first alias whose value is non-empty after
\* trimming, "" when there is none
RECURSIVE FirstNonEmptyTrimmed(_, _)
FirstNonEmptyTrimmed(row, aliases) ==
    IF aliases = <<>> THEN <<>>
    ELSE IF norm(Get(row, Head(aliases))) # <<>> THEN norm(Get(row, Head(aliases)))
    ELSE FirstNonEmptyTrimmed(row, Tail(aliases))

\* the "; "-join of the sorted distinct non-empty first-non-empty-after-trimming
\* values of the matched records
JoinedAsClaimed(matched, aliases) ==
    join(SEP, sorted({FirstNonEmptyTrimmed(matched[j], aliases) : j \in 1..Len(matched)}
                        \ {<<>>}))

\* C7: for a non-empty matched list each joined-string field is the "; "-join
\* of the ascending sorted set of the distinct non-empty values, one per
\* matched record: the trimmed value of its first candidate column that is
\* non-empty after trimming.
C7_JoinedFieldsAsClaimed ==
    pc = "return" =>
        \A i \in 1..Len(invoice_rows) :
            LET K == invoice_key_from_invoices(invoice_rows[i])
                a == SelectSeq(attach_rows, LAMBDA r : invoice_key_from_attachments(r) = K)
                s == SelectSeq(issues_rows, LAMBDA r : invoice_key_from_issues(r) = K)
                out == enriched_rows[i]
            IN /\ (K # <<>> /\ a # <<>>) =>
                     /\ out["Enriched_Attachment_Doc_IDs"]
                            = Str(JoinedAsClaimed(a, DocIdAliases))
                     /\ out["Enriched_Attachment_File_Names"]
                            = Str(JoinedAsClaimed(a, NameAliases))
                     /\ out["Enriched_Attachment_Paths"]
                            = Str(JoinedAsClaimed(a, PathAliases))
               /\ (K # <<>> /\ s # <<>>) =>
                     out["Enriched_Issue_Flags"] = Str(JoinedAsClaimed(s, FlagAliases))

(***************************************************************************)
(* Properties of the index                                                 *)
(***************************************************************************)
RECURSIVE SumLens(_, _)
SumLens(index, keys) ==
    IF keys = {} THEN 0
    ELSE LET k == CHOOSE x \in keys : TRUE
         IN Len(index[k]) + SumLens(index, keys \ {k})

\* C4: build_index groups the keyable records exactly: "" is no key of the
\* index, the keys are the non-empty keys of the records, the list under a
\* key is the records with that key in input order, and the indexed records
\* plus the skipped empty-key records are as many as the input.
C4_IndexIsExactGrouping ==
    pc = "return" =>
        LET rows == arg.rows
            keyOf(r) == key_fn(arg.kind, r)
        IN /\ <<>> \notin DOMAIN res
           /\ DOMAIN res = {keyOf(rows[j]) : j \in 1..Len(rows)} \ {<<>>}
           /\ \A k \in DOMAIN res : res[k] = SelectSeq(rows, LAMBDA r : keyOf(r) = k)
           /\ SumLens(res, DOMAIN res) + CountKeyed(rows, arg.kind, <<>>) = Len(rows)

\* three records indexed: one skipped for its empty key, two different ones
\* under one key
C4_Witness ==
    /\ pc = "return"
    /\ Len(arg.rows) = 3
    /\ CountKeyed(arg.rows, arg.kind, <<>>) = 1
    /\ \E k \in DOMAIN res : Len(res[k]) = 2 /\ res[k][1] # res[k][2]

(***************************************************************************)
(* SpecKey: one call of a key function                                     *)
(***************************************************************************)
KeyColumns == {"Invoice ID", "InvoiceID", "Xero number", "Key"}

\* a cell: absent or None, "", " ", " a1 ", "B2"
KeyCells == {None, Str(<<>>), Str(S_blank), Str(S_a1_padded), Str(S_B2)}

InitKey ==
    /\ pc = "call"
    /\ \E kind \in {"invoices", "attachments", "issues"} :
         \E row \in [KeyColumns -> KeyCells] :
            arg = [row |-> row, kind |-> kind]
    /\ res = Idle
    /\ invoice_rows = Idle /\ attach_rows = Idle /\ issues_rows = Idle
    /\ attach_index = Idle /\ issue_index = Idle /\ enriched_rows = Idle
    /\ actor_input = Idle /\ invoice_header = Idle /\ kv_store = Idle
    /\ dataset = Idle /\ calls = Idle
    /\ log = <<>>

\* the call invoice_key_from_<kind>(row)
ExtractKey ==
    /\ pc = "call"
    /\ res' = key_fn(arg.kind, arg.row)
    /\ pc' = "return"
    /\ UNCHANGED <<arg, joinVars, mainOnly, log>>

NextKey == ExtractKey

SpecKey == InitKey /\ [][NextKey]_vars

AliasesOf(kind) ==
    CASE kind = "invoices" -> InvoiceAliases
      [] kind = "attachments" -> AttachmentAliases
      [] kind = "issues" -> IssueAliases

\* C3: the key is the trimmed, upper-cased value of the first alias, in the
\* extractor's priority order, whose value is present and non-empty after
\* trimming, and "" only when no alias has such a value.
C3_KeyIsFirstNonEmptyTrimmed ==
    pc = "return" => res = upper(FirstNonEmptyTrimmed(arg.row, AliasesOf(arg.kind)))

(***************************************************************************)
(* SpecPerm: the aggregation and the join over reordered secondary sources *)
(***************************************************************************)
MaxPermIssues == 2

\* the reorderings of a list
Reorderings(rows) ==
    {[i \in 1..Len(rows) |-> rows[f[i]]] : f \in Permutations(1..Len(rows))}

\* what the three functions return for the sources as they stand
Aggregated(inv, att, iss) ==
    [attach |-> extract_attachment_fields(att),
     issue |-> extract_issue_fields(iss),
     enriched |-> build_enriched_rows(inv, att, iss)]

InitPerm ==
    /\ pc = "call"
    /\ invoice_rows = <<I_A1, I_B2, I_unkeyed>>
    /\ attach_rows \in SeqsUpTo(AttachRecords, MaxAttachRows)
    /\ issues_rows \in SeqsUpTo(IssueRecords, MaxPermIssues)
    /\ arg = Idle /\ res = Idle
    /\ attach_index = Idle /\ issue_index = Idle /\ enriched_rows = Idle
    /\ actor_input = Idle /\ invoice_header = Idle /\ kv_store = Idle
    /\ dataset = Idle /\ calls = Idle
    /\ log = <<>>

\* extract_attachment_fields, extract_issue_fields and build_enriched_rows on
\* the sources as given; arg keeps the sources and the results of this call
Aggregate ==
    /\ pc = "call"
    /\ res' = Aggregated(invoice_rows, attach_rows, issues_rows)
    /\ arg' = [attach_rows |-> attach_rows, issues_rows |-> issues_rows,
               res |-> Aggregated(invoice_rows, attach_rows, issues_rows)]
    /\ pc' = "return"
    /\ UNCHANGED <<joinVars, mainOnly, log>>

\* the same calls on the attachment rows in another order
ReorderAttachments ==
    /\ pc = "return"
    /\ \E rows \in Reorderings(attach_rows) \ {attach_rows} :
          /\ attach_rows' = rows
          /\ res' = Aggregated(invoice_rows, rows, issues_rows)
    /\ UNCHANGED <<pc, arg, invoice_rows, issues_rows, attach_index, issue_index,
                   enriched_rows, mainOnly, log>>

\* the same calls on the issue rows in another order
ReorderIssues ==
    /\ pc = "return"
    /\ \E rows \in Reorderings(issues_rows) \ {issues_rows} :
          /\ issues_rows' = rows
          /\ res' = Aggregated(invoice_rows, attach_rows, rows)
    /\ UNCHANGED <<pc, arg, invoice_rows, attach_rows, attach_index, issue_index,
                   enriched_rows, mainOnly, log>>

NextPerm == Aggregate \/ ReorderAttachments \/ ReorderIssues

SpecPerm == InitPerm /\ [][NextPerm]_vars

\* C6: extract_attachment_fields and extract_issue_fields return the same
\* fields for every reordering of their list, and build_enriched_rows the
\* same rows for every row order of the attachment and issue sources.
C6_OrderIndependent ==
    pc = "return" => res = arg.res

\* two attachment records with different Doc IDs, file names and paths,
\* aggregated in the order opposite to the first call's
C6_Witness ==
    /\ pc = "return"
    /\ Len(attach_rows) = 2
    /\ attach_rows # arg.attach_rows
    /\ collect(attach_rows, DocIdAliases) = {S_D1, S_D2}
    /\ Cardinality(collect(attach_rows, NameAliases)) = 2
    /\ Cardinality(collect(attach_rows, PathAliases)) = 2
    /\ res.attach["Enriched_Attachment_Doc_IDs"] = Str(S_D1 \o SEP \o S_D2)

(***************************************************************************)
(* download_csv                                                            *)
(***************************************************************************)
\* the characters str.splitlines breaks a line at (\r\n counts as one break)
LineBreaks == {10, 11, 12, 13, 28, 29, 30, 133, 8232, 8233}

\* the index of the first character of s that is in set C, 0 when none is
FirstIndex(s, C) ==
    IF \E i \in 1..Len(s) : s[i] \in C
    THEN CHOOSE i \in 1..Len(s) : s[i] \in C /\ \A j \in 1..(i - 1) : s[j] \notin C
    ELSE 0

\* text.splitlines()
RECURSIVE splitlines(_)
splitlines(s) ==
    IF s = <<>> THEN <<>>
    ELSE LET i == FirstIndex(s, LineBreaks)
         IN IF i = 0 THEN <<s>>
            ELSE LET skip == IF s[i] = 13 /\ i < Len(s) /\ s[i + 1] = 10 THEN 2 ELSE 1
                 IN <<SubSeq(s, 1, i - 1)>> \o splitlines(SubSeq(s, i + skip, Len(s)))

\* ln.split(",")
RECURSIVE split_comma(_)
split_comma(s) ==
    LET i == FirstIndex(s, {44})
    IN IF i = 0 THEN <<s>>
       ELSE <<SubSeq(s, 1, i - 1)>> \o split_comma(SubSeq(s, i + 1, Len(s)))

\* [p.strip() for p in ln.split(",")]
stripped_parts(ln) == LET ps == split_comma(ln) IN [i \in 1..Len(ps) |-> strip(ps[i])]

\* dict(zip(header, parts)): a repeated column name keeps its last value
dict_zip(header, parts) ==
    LET n == IF Len(header) < Len(parts) THEN Len(header) ELSE Len(parts)
    IN [c \in {header[i] : i \in 1..n} |->
            Str(parts[CHOOSE i \in 1..n : header[i] = c /\ \A j \in (i + 1)..n : header[j] # c])]

\* a loop that turns every data line into a row, whatever its field count
fallback_rows_noSkip(header, data) ==
    [i \in 1..Len(data) |-> dict_zip(header, stripped_parts(data[i]))]

\* the fallback loop over lines[1:]: a line whose field count differs from the
\* header's is skipped
fallback_rows(header, data) ==
    LET kept == SelectSeq(data, LAMBDA ln : Len(stripped_parts(ln)) = Len(header))
    IN [i \in 1..Len(kept) |-> dict_zip(header, stripped_parts(kept[i]))]

\* the fallback parser: (rows, header, log events)
fallback_parse(text) ==
    LET lines == SelectSeq(splitlines(text), LAMBDA ln : strip(ln) # <<>>)
    IN IF lines = <<>> THEN [rows |-> <<>>, header |-> <<>>, log |-> <<"warning">>]
       ELSE [rows |-> fallback_rows(stripped_parts(lines[1]), Tail(lines)),
             header |-> stripped_parts(lines[1]),
             log |-> <<"info">>]

(***************************************************************************)
(* SpecCsv: one call of download_csv                                       *)
(***************************************************************************)
MaxLines == 3

L_header4 == <<97, 44, 98, 44, 99, 44, 100>>          \* "a,b,c,d"
L_three == <<49, 44, 50, 44, 51>>                     \* "1,2,3"
L_four == <<49, 44, 50, 44, 51, 44, 52>>              \* "1,2,3,4"
L_four_padded == <<32, 53, 32, 44, 54, 44, 32, 44, 56, 32>>  \* " 5 ,6, ,8 "
L_five == <<49, 44, 50, 44, 51, 44, 52, 44, 53>>      \* "1,2,3,4,5"
L_one == <<120>>                                      \* "x"
L_spaces == <<32, 32>>                                \* "  "

FileLines == {L_header4, L_three, L_four, L_four_padded, L_five, L_one, L_spaces, <<>>}

\* what csv.DictReader makes of a text: csv.Error, or a header and rows
DictReaderResults ==
    { [raises |-> "csv.Error", header |-> <<>>, rows |-> <<>>],
      [raises |-> "", header |-> <<"Invoice ID">>, rows |-> <<>>],
      [raises |-> "", header |-> <<"Invoice ID">>,
       rows |-> <<"Invoice ID" :> Str(S_A1)>>] }

InitCsv ==
    /\ pc = "call"
    /\ \E url \in {<<>>, <<117>>}, fetch \in {"ok", "URLError"},
          lines \in SeqsUpTo(FileLines, MaxLines), nl \in {<<10>>, <<13, 10>>},
          reader \in DictReaderResults :
            arg = [url |-> url, fetch |-> fetch, lines |-> lines,
                   text |-> join(nl, lines), reader |-> reader]
    /\ res = Idle
    /\ invoice_rows = Idle /\ attach_rows = Idle /\ issues_rows = Idle
    /\ attach_index = Idle /\ issue_index = Idle /\ enriched_rows = Idle
    /\ actor_input = Idle /\ invoice_header = Idle /\ kv_store = Idle
    /\ dataset = Idle /\ calls = Idle
    /\ log = <<>>

\* if not url: return [], []
DownloadCsvNoUrl ==
    /\ pc = "call"
    /\ arg.url = <<>>
    /\ res' = <<<<>>, <<>>>>
    /\ pc' = "return"
    /\ UNCHANGED <<arg, joinVars, mainOnly, log>>

\* urllib.request.urlopen raises: the exception leaves download_csv
DownloadCsvUrlError ==
    /\ pc = "call"
    /\ arg.url # <<>>
    /\ arg.fetch = "URLError"
    /\ log' = log \o <<"info">>
    /\ pc' = "raised"
    /\ UNCHANGED <<arg, res, joinVars, mainOnly>>

\* csv.DictReader reads the text
DownloadCsvDictReader ==
    /\ pc = "call"
    /\ arg.url # <<>>
    /\ arg.fetch = "ok"
    /\ arg.reader.raises = ""
    /\ res' = <<arg.reader.rows, arg.reader.header>>
    /\ log' = log \o <<"info", "info">>
    /\ pc' = "return"
    /\ UNCHANGED <<arg, joinVars, mainOnly>>

\* csv.DictReader raises csv.Error: warning, then the fallback parser
DownloadCsvFallback ==
    /\ pc = "call"
    /\ arg.url # <<>>
    /\ arg.fetch = "ok"
    /\ arg.reader.raises = "csv.Error"
    /\ LET parsed == fallback_parse(arg.text)
       IN /\ res' = <<parsed.rows, parsed.header>>
          /\ log' = log \o <<"info", "warning">> \o parsed.log
    /\ pc' = "return"
    /\ UNCHANGED <<arg, joinVars, mainOnly>>

NextCsv ==
    \/ DownloadCsvNoUrl
    \/ DownloadCsvUrlError
    \/ DownloadCsvDictReader
    \/ DownloadCsvFallback

SpecCsv == InitCsv /\ [][NextCsv]_vars

\* the call takes the fallback path
TakesFallback == arg.url # <<>> /\ arg.fetch = "ok" /\ arg.reader.raises = "csv.Error"

IsBlankLine(ln) == \A i \in 1..Len(ln) : IsSpace(ln[i])

\* the number of comma-separated fields of a line
FieldCount(ln) == 1 + Cardinality({i \in 1..Len(ln) : ln[i] = 44})

\* the non-blank lines of the file, in file order
NonBlankLines == SelectSeq(arg.lines, LAMBDA ln : ~IsBlankLine(ln))

\* the data lines the fallback keeps: non-blank, after the header line, with
\* the header's field count
KeptLines ==
    SelectSeq(Tail(NonBlankLines), LAMBDA ln : FieldCount(ln) = FieldCount(NonBlankLines[1]))

\* C10: on the fallback path the returned rows are the non-blank data lines
\* after the header line, in file order, whose comma-split field count equals
\* the header's, every other line being dropped; a warning is logged and the
\* call returns instead of raising.
C10_FallbackDropsMismatchedLines ==
    (pc # "call" /\ TakesFallback) =>
        /\ pc = "return"
        /\ \E i \in 1..Len(log) : log[i] = "warning"
        /\ IF NonBlankLines = <<>> THEN res = <<<<>>, <<>>>>
           ELSE LET rows == res[1]
                    header == res[2]
                IN /\ Len(header) = FieldCount(NonBlankLines[1])
                   /\ Len(rows) = Len(KeptLines)
                   /\ \A i \in 1..Len(KeptLines) :
                         /\ DOMAIN rows[i] = {header[j] : j \in 1..Len(header)}
                         /\ \A j \in 1..Len(header) :
                               (\A j2 \in (j + 1)..Len(header) : header[j2] # header[j]) =>
                                  rows[i][header[j]] = Str(strip(split_comma(KeptLines[i])[j]))

\* a 4-column header, then a 3-field line that is dropped and a 4-field line
\* that is kept
C10_Witness ==
    /\ pc = "return"
    /\ TakesFallback
    /\ arg.lines = <<L_header4, L_three, L_four_padded>>
    /\ Len(res[1]) = 1
    /\ res[1][1][<<97>>] = Str(<<53>>)

(***************************************************************************)
(* main                                                                    *)
(***************************************************************************)
\* not v, for a str v
missing(v) == v = <<>>

\* a check that lets every row list through
no_rows_unchecked(rows) == FALSE

\* not invoice_rows
no_rows(rows) == rows = <<>>

enrichment_fields ==
    <<"Enriched_Attachment_Count", "Enriched_Attachment_Doc_IDs",
      "Enriched_Attachment_File_Names", "Enriched_Attachment_Paths",
      "Enriched_Attachment_Download_Args", "Enriched_Issue_Count",
      "Enriched_Issue_Flags">>

\* list(row.keys()); only evaluated when the header is empty
RECURSIVE keys_list(_)
keys_list(cols) ==
    IF cols = {} THEN <<>>
    ELSE LET c == CHOOSE x \in cols : TRUE IN <<c>> \o keys_list(cols \ {c})

\* base_fields + [f for f in enrichment_fields if f not in base_fields]
fieldnames(base_fields) ==
    base_fields \o SelectSeq(enrichment_fields,
                             LAMBDA f : \A j \in 1..Len(base_fields) : base_fields[j] # f)

\* the cell csv.DictWriter writes for a value: "" for None, else str(value)
cell(v) == IF v = None THEN <<>> ELSE str(v)

\* writer.writerow(row): one cell per field name, "" for a field the row lacks
written_row(names, row) ==
    [j \in 1..Len(names) |-> IF names[j] \in DOMAIN row THEN cell(row[names[j]]) ELSE <<>>]

\* the CSV written: the header record, then one record per enriched row (the
\* quoting and joining of the cells into text is csv's and is not modelled)
csv_data_of(names, rows) ==
    [header |-> names, rows |-> [i \in 1..Len(rows) |-> written_row(names, rows[i])]]

\* f"invoice_master_enriched_{year}.csv"
filename_of(year) ==
    <<105, 110, 118, 111, 105, 99, 101, 95, 109, 97, 115, 116, 101, 114, 95,
      101, 110, 114, 105, 99, 104, 101, 100, 95>> \o year \o <<46, 99, 115, 118>>

year == norm(Get(actor_input, "Year"))
invoices_url == norm(Get(actor_input, "InvoicesUrl"))
attach_url == norm(Get(actor_input, "AttachUrl"))
issues_url == norm(Get(actor_input, "IssuesUrl"))

(***************************************************************************)
(* Spec: one run of main.  arg is the world outside the run: the table     *)
(* download_csv returns for each source, and the download that fails.      *)
(***************************************************************************)
MaxMainRows == 1

S_url == <<117>>                 \* "u"
S_2016 == <<50, 48, 49, 54>>     \* "2016"

H_invoices == <<"Invoice ID", "Invoice Number", "Amount">>
H_enriched == <<"Invoice ID", "Enriched_Issue_Count">>

A_a1 ==
       "Invoice ID" :> Str(S_a1) @@ "Doc ID" :> Str(S_D1) @@ "DocID" :> Str(<<>>)
    @@ "name" :> Str(S_f) @@ "path_lower" :> Str(S_path_p)
A_unkeyed ==
       "Invoice ID" :> Str(<<>>) @@ "Doc ID" :> Str(S_D3) @@ "DocID" :> None
    @@ "name" :> Str(S_g) @@ "path_lower" :> Str(S_path_p)
X_A1 ==
       "Invoice ID" :> Str(S_A1) @@ "Key" :> Str(<<>>)
    @@ "Issue_Flag" :> Str(S_late) @@ "Status" :> Str(<<>>)

\* what download_csv returns for the invoice source: an empty file, a header
\* with or without rows
InvoiceTables ==
    {[header |-> <<>>, rows |-> <<>>]}
    \cup {[header |-> H_invoices, rows |-> r] : r \in SeqsUpTo({I_A1, I_unkeyed}, MaxMainRows)}
    \cup {[header |-> H_enriched, rows |-> r] :
            r \in SeqsUpTo(EnrichedInvoiceRecords, MaxMainRows)}

AttachTables == SeqsUpTo({A_a1, A_unkeyed}, MaxMainRows)

IssueTables == SeqsUpTo({X_A1}, MaxMainRows)

ActorInputs ==
    {    "Year" :> y @@ "InvoicesUrl" :> iu @@ "AttachUrl" :> au @@ "IssuesUrl" :> xu :
         y \in {None, Str(S_2016)}, iu \in {None, Str(S_blank), Str(S_url)},
         au \in {None, Str(S_url)}, xu \in {None, Str(S_url)} }

Init ==
    /\ pc = "start"
    /\ actor_input \in ActorInputs
    /\ \E inv \in InvoiceTables, att \in AttachTables, iss \in IssueTables,
          fails \in {"none", "invoices", "attachments", "issues"} :
            arg = [invoices |-> inv, attachments |-> att, issues |-> iss, fails |-> fails]
    /\ invoice_rows = Idle /\ invoice_header = Idle
    /\ attach_rows = Idle /\ issues_rows = Idle
    /\ attach_index = Idle /\ issue_index = Idle /\ enriched_rows = Idle
    /\ kv_store = <<>> /\ dataset = <<>> /\ calls = <<>> /\ log = <<>>
    /\ res = Idle

runVars == <<invoice_rows, invoice_header, attach_rows, issues_rows, attach_index,
             issue_index, enriched_rows, kv_store, dataset, calls>>

\* if not year: log error, return
MissingYear ==
    /\ pc = "start"
    /\ missing(year)
    /\ log' = log \o <<"info", "error">>
    /\ pc' = "done"
    /\ UNCHANGED <<actor_input, arg, res, runVars>>

\* if not invoices_url: log error, return
MissingInvoicesUrl ==
    /\ pc = "start"
    /\ ~missing(year)
    /\ missing(invoices_url)
    /\ log' = log \o <<"info", "error">>
    /\ pc' = "done"
    /\ UNCHANGED <<actor_input, arg, res, runVars>>

\* download_csv(invoices_url, "invoices") returns
DownloadInvoices ==
    /\ pc = "start"
    /\ ~missing(year)
    /\ ~missing(invoices_url)
    /\ arg.fails # "invoices"
    /\ invoice_rows' = arg.invoices.rows
    /\ invoice_header' = arg.invoices.header
    /\ attach_rows' = <<>>
    /\ issues_rows' = <<>>
    /\ calls' = Append(calls, "download_csv invoices")
    /\ log' = log \o <<"info", "info", "info">>
    /\ pc' = "attachments"
    /\ UNCHANGED <<actor_input, arg, res, attach_index, issue_index, enriched_rows,
                   kv_store, dataset>>

\* if attach_url: download_csv(attach_url, "attachments") returns
DownloadAttachments ==
    /\ pc = "attachments"
    /\ ~missing(attach_url)
    /\ arg.fails # "attachments"
    /\ attach_rows' = arg.attachments
    /\ calls' = Append(calls, "download_csv attachments")
    /\ log' = log \o <<"info", "info">>
    /\ pc' = "issues"
    /\ UNCHANGED <<actor_input, arg, res, invoice_rows, invoice_header, issues_rows,
                   attach_index, issue_index, enriched_rows, kv_store, dataset>>

\* else: warning, attachments skipped
SkipAttachments ==
    /\ pc = "attachments"
    /\ missing(attach_url)
    /\ log' = log \o <<"warning">>
    /\ pc' = "issues"
    /\ UNCHANGED <<actor_input, arg, res, runVars>>

\* if issues_url: download_csv(issues_url, "issues") returns
DownloadIssues ==
    /\ pc = "issues"
    /\ ~missing(issues_url)
    /\ arg.fails # "issues"
    /\ issues_rows' = arg.issues
    /\ calls' = Append(calls, "download_csv issues")
    /\ log' = log \o <<"info", "info">>
    /\ pc' = "rows"
    /\ UNCHANGED <<actor_input, arg, res, invoice_rows, invoice_header, attach_rows,
                   attach_index, issue_index, enriched_rows, kv_store, dataset>>

\* else: warning, issues skipped
SkipIssues ==
    /\ pc = "issues"
    /\ missing(issues_url)
    /\ log' = log \o <<"warning">>
    /\ pc' = "rows"
    /\ UNCHANGED <<actor_input, arg, res, runVars>>

\* urlopen raises inside a download_csv call: the exception leaves main
DownloadRaises ==
    /\ \/ pc = "start" /\ ~missing(year) /\ ~missing(invoices_url) /\ arg.fails = "invoices"
       \/ pc = "attachments" /\ ~missing(attach_url) /\ arg.fails = "attachments"
       \/ pc = "issues" /\ ~missing(issues_url) /\ arg.fails = "issues"
    /\ calls' = Append(calls, CASE arg.fails = "invoices" -> "download_csv invoices"
                                 [] arg.fails = "attachments" -> "download_csv attachments"
                                 [] arg.fails = "issues" -> "download_csv issues")
    /\ log' = log \o <<"info">>
    /\ pc' = "raised"
    /\ UNCHANGED <<actor_input, arg, res, invoice_rows, invoice_header, attach_rows,
                   issues_rows, attach_index, issue_index, enriched_rows, kv_store,
                   dataset>>

\* if not invoice_rows: log error, return
AbortNoInvoiceRows ==
    /\ pc = "rows"
    /\ no_rows(invoice_rows)
    /\ log' = log \o <<"info", "error">>
    /\ pc' = "done"
    /\ UNCHANGED <<actor_input, arg, res, runVars>>

\* build_enriched_rows, the CSV in memory, await Actor.set_value
BuildAndWrite ==
    /\ pc = "rows"
    /\ ~no_rows(invoice_rows)
    /\ attach_index' = build_index(attach_rows, "attachments")
    /\ issue_index' = build_index(issues_rows, "issues")
    /\ enriched_rows' = build_enriched_rows(invoice_rows, attach_rows, issues_rows)
    /\ IF invoice_header = <<>> /\ invoice_rows = <<>>
       THEN \* invoice_rows[0]: IndexError
            /\ pc' = "raised"
            /\ calls' = Append(calls, "build_enriched_rows")
            /\ log' = log \o <<"info", "info", "info">>
            /\ UNCHANGED kv_store
       ELSE LET base_fields ==
                    IF invoice_header # <<>> THEN invoice_header
                    ELSE keys_list(DOMAIN invoice_rows[1])
                names == fieldnames(base_fields)
            IN /\ kv_store' = Append(kv_store,
                       [key |-> filename_of(year),
                        value |-> csv_data_of(names,
                            build_enriched_rows(invoice_rows, attach_rows, issues_rows)),
                        content_type |-> "text/csv; charset=utf-8"])
               /\ calls' = calls \o <<"build_enriched_rows", "Actor.set_value">>
               /\ log' = log \o <<"info", "info", "info">>
               /\ pc' = "push"
    /\ UNCHANGED <<actor_input, arg, res, invoice_rows, invoice_header, attach_rows,
                   issues_rows, dataset>>

\* await Actor.push_data(summary), the last log line, return
PushData ==
    /\ pc = "push"
    /\ dataset' = Append(dataset,
           [year |-> year, invoice_rows |-> Len(invoice_rows),
            attachment_rows |-> Len(attach_rows), issue_rows |-> Len(issues_rows),
            enriched_rows |-> Len(enriched_rows), kv_filename |-> filename_of(year)])
    /\ calls' = Append(calls, "Actor.push_data")
    /\ log' = log \o <<"info">>
    /\ pc' = "done"
    /\ UNCHANGED <<actor_input, arg, res, invoice_rows, invoice_header, attach_rows,
                   issues_rows, attach_index, issue_index, enriched_rows, kv_store>>

Next ==
    \/ MissingYear
    \/ MissingInvoicesUrl
    \/ DownloadInvoices
    \/ DownloadAttachments
    \/ SkipAttachments
    \/ DownloadIssues
    \/ SkipIssues
    \/ DownloadRaises
    \/ AbortNoInvoiceRows
    \/ BuildAndWrite
    \/ PushData

Spec == Init /\ [][Next]_vars

(***************************************************************************)
(* Properties of the run                                                   *)
(***************************************************************************)
\* the column positions of name c in a header
Positions(header, c) == {j \in 1..Len(header) : header[j] = c}

\* C8: when a primary record has a column named like an enrichment field, the
\* enriched row and the written row keep the primary record's value in that
\* column, and the written header lists the column once, at its primary
\* position.
C8_PrimaryValueKept ==
    (pc = "done" /\ kv_store # <<>>) =>
        LET csv == kv_store[1].value
        IN \A i \in 1..Len(invoice_rows) :
              \A c \in DOMAIN invoice_rows[i] \cap EnrichmentFieldNames :
                 /\ enriched_rows[i][c] = invoice_rows[i][c]
                 /\ Positions(csv.header, c) = Positions(invoice_header, c)
                 /\ Cardinality(Positions(csv.header, c)) = 1
                 /\ \A j \in Positions(csv.header, c) :
                       csv.rows[i][j] = cell(invoice_rows[i][c])

YearMissing == norm(Get(actor_input, "Year")) = <<>>
InvoicesUrlMissing == norm(Get(actor_input, "InvoicesUrl")) = <<>>

Called(name) == \E i \in 1..Len(calls) : calls[i] = name
TimesCalled(name) == Cardinality({i \in 1..Len(calls) : calls[i] = name})

\* no source has been fetched and nothing indexed or joined
NothingDownloaded == calls = <<>>
NotBuilt == ~Called("build_enriched_rows")
NothingWritten ==
    /\ kv_store = <<>> /\ dataset = <<>>
    /\ ~Called("Actor.set_value") /\ ~Called("Actor.push_data")

\* one artifact, then one summary, as the last two calls of the run
WrittenOnceThenPushedOnce ==
    /\ Len(kv_store) = 1 /\ Len(dataset) = 1
    /\ TimesCalled("Actor.set_value") = 1 /\ TimesCalled("Actor.push_data") = 1
    /\ Len(calls) >= 2
    /\ SubSeq(calls, Len(calls) - 1, Len(calls)) = <<"Actor.set_value", "Actor.push_data">>

\* at most one artifact, at most one summary, the summary never before the
\* artifact
WriteBeforePush == Len(kv_store) <= 1 /\ Len(dataset) <= Len(kv_store)

\* C9 as stated: a missing InvoicesUrl ends the run before any download or
\* indexing and an invoice source without records ends it before
\* build_enriched_rows, both without artifact or summary; every other run
\* (here: one whose downloads all return) writes the artifact once and then
\* pushes one summary.
C9_AsStated ==
    /\ InvoicesUrlMissing => NothingDownloaded /\ NothingWritten
    /\ (~InvoicesUrlMissing /\ arg.invoices.rows = <<>>) => NotBuilt /\ NothingWritten
    /\ WriteBeforePush
    /\ (pc = "done" /\ arg.fails = "none"
            /\ ~InvoicesUrlMissing /\ arg.invoices.rows # <<>>) =>
          WrittenOnceThenPushedOnce

\* C9, amended: a missing Year or InvoicesUrl ends the run before any download
\* or indexing, an invoice source without records ends it before
\* build_enriched_rows, and a download that raises ends it as well; none of
\* these runs writes an artifact or pushes a summary.  Every other run that
\* ends has written the artifact once and then pushed one summary.
C9_FatalRunsWriteNothing ==
    /\ (YearMissing \/ InvoicesUrlMissing) => NothingDownloaded /\ NothingWritten
    /\ (~YearMissing /\ ~InvoicesUrlMissing /\ arg.invoices.rows = <<>>) =>
          NotBuilt /\ NothingWritten
    /\ pc = "raised" => NotBuilt /\ NothingWritten
    /\ WriteBeforePush
    /\ (pc = "done" /\ ~YearMissing /\ ~InvoicesUrlMissing /\ arg.invoices.rows # <<>>) =>
          WrittenOnceThenPushedOnce

\* a run without AttachUrl and IssuesUrl that has ended with the artifact
\* written and the summary pushed
C9_Witness ==
    /\ pc = "done"
    /\ norm(Get(actor_input, "AttachUrl")) = <<>>
    /\ norm(Get(actor_input, "IssuesUrl")) = <<>>
    /\ calls = <<"download_csv invoices", "build_enriched_rows", "Actor.set_value",
                 "Actor.push_data">>
    /\ Len(kv_store) = 1 /\ Len(dataset) = 1
    /\ dataset[1].enriched_rows = Len(arg.invoices.rows)

====
